---- MODULE Spec2Model ----
(***************************************************************************)
(* A model of pinentry-rofi (src/src/lib.rs): the Assuan session loop      *)
(* `pinentry`, the request interpreter `handle_command` and the picker     *)
(* adapter `run_rofi`.                                                     *)
(*                                                                         *)
(* Text.  A Rust string is modelled as a sequence of atoms.  An atom is a  *)
(* TLA+ string standing either for one byte of the text ("%", "\n", ":",   *)
(* "\\xC3", ...) or for a run of plain bytes that no operation of the      *)
(* program looks into ("OPTION", "Passphrase", "/dev/pts/1", an entity     *)
(* such as "&quot;").  Every operation below works on the atoms the way    *)
(* the Rust operation works on the bytes: it splits, strips, decodes and   *)
(* escapes at the single-byte atoms and carries the runs along.            *)
(***************************************************************************)
EXTENDS Integers, Sequences, FiniteSets, TLC

(***************************************************************************)
(* Bounds of the model.                                                    *)
(***************************************************************************)
\* the number of input lines one session reads before the input ends
MaxRequests == 3

(***************************************************************************)
(* Option<T>: None is the empty sequence, Some(v) the one-element sequence *)
(***************************************************************************)
None == << >>

Some(v) == << v >>

is_some(o) == o # None

unwrap(o) == o[1]

unwrap_or(o, d) == IF is_some(o) THEN o[1] ELSE d

(***************************************************************************)
(* Bytes.  BYTES[c + 1] is the atom of the byte with code c.               *)
(***************************************************************************)
BYTES ==
  <<
    "\\x00", "\\x01", "\\x02", "\\x03", "\\x04", "\\x05", "\\x06", "\\x07",
    "\\x08", "\t", "\n", "\\x0B", "\\x0C", "\r", "\\x0E", "\\x0F",
    "\\x10", "\\x11", "\\x12", "\\x13", "\\x14", "\\x15", "\\x16", "\\x17",
    "\\x18", "\\x19", "\\x1A", "\\x1B", "\\x1C", "\\x1D", "\\x1E", "\\x1F",
    " ", "!", "\"", "#", "$", "%", "&", "'",
    "(", ")", "*", "+", ",", "-", ".", "/",
    "0", "1", "2", "3", "4", "5", "6", "7",
    "8", "9", ":", ";", "<", "=", ">", "?",
    "@", "A", "B", "C", "D", "E", "F", "G",
    "H", "I", "J", "K", "L", "M", "N", "O",
    "P", "Q", "R", "S", "T", "U", "V", "W",
    "X", "Y", "Z", "[", "\\", "]", "^", "_",
    "\\x60", "a", "b", "c", "d", "e", "f", "g",
    "h", "i", "j", "k", "l", "m", "n", "o",
    "p", "q", "r", "s", "t", "u", "v", "w",
    "x", "y", "z", "{", "|", "}", "~", "\\x7F",
    "\\x80", "\\x81", "\\x82", "\\x83", "\\x84", "\\x85", "\\x86", "\\x87",
    "\\x88", "\\x89", "\\x8A", "\\x8B", "\\x8C", "\\x8D", "\\x8E", "\\x8F",
    "\\x90", "\\x91", "\\x92", "\\x93", "\\x94", "\\x95", "\\x96", "\\x97",
    "\\x98", "\\x99", "\\x9A", "\\x9B", "\\x9C", "\\x9D", "\\x9E", "\\x9F",
    "\\xA0", "\\xA1", "\\xA2", "\\xA3", "\\xA4", "\\xA5", "\\xA6", "\\xA7",
    "\\xA8", "\\xA9", "\\xAA", "\\xAB", "\\xAC", "\\xAD", "\\xAE", "\\xAF",
    "\\xB0", "\\xB1", "\\xB2", "\\xB3", "\\xB4", "\\xB5", "\\xB6", "\\xB7",
    "\\xB8", "\\xB9", "\\xBA", "\\xBB", "\\xBC", "\\xBD", "\\xBE", "\\xBF",
    "\\xC0", "\\xC1", "\\xC2", "\\xC3", "\\xC4", "\\xC5", "\\xC6", "\\xC7",
    "\\xC8", "\\xC9", "\\xCA", "\\xCB", "\\xCC", "\\xCD", "\\xCE", "\\xCF",
    "\\xD0", "\\xD1", "\\xD2", "\\xD3", "\\xD4", "\\xD5", "\\xD6", "\\xD7",
    "\\xD8", "\\xD9", "\\xDA", "\\xDB", "\\xDC", "\\xDD", "\\xDE", "\\xDF",
    "\\xE0", "\\xE1", "\\xE2", "\\xE3", "\\xE4", "\\xE5", "\\xE6", "\\xE7",
    "\\xE8", "\\xE9", "\\xEA", "\\xEB", "\\xEC", "\\xED", "\\xEE", "\\xEF",
    "\\xF0", "\\xF1", "\\xF2", "\\xF3", "\\xF4", "\\xF5", "\\xF6", "\\xF7",
    "\\xF8", "\\xF9", "\\xFA", "\\xFB", "\\xFC", "\\xFD", "\\xFE", "\\xFF"
  >>

\* the code of each single-byte atom
CODES == [a \in { BYTES[i] : i \in 1..Len(BYTES) } |-> (CHOOSE i \in 1..Len(BYTES) : BYTES[i] = a) - 1]

code_of(a) == CODES[a]

is_byte(a) == a \in DOMAIN CODES

HEXUPPER ==
  << "0", "1", "2", "3", "4", "5", "6", "7", "8", "9", "A", "B", "C", "D", "E", "F" >>

HEXLOWER ==
  << "0", "1", "2", "3", "4", "5", "6", "7", "8", "9", "a", "b", "c", "d", "e", "f" >>

\* urlencoding's from_hex_digit: Some(value) for 0-9, A-F, a-f
from_hex_digit(a) ==
  IF \E i \in 1..Len(HEXUPPER) : HEXUPPER[i] = a
    THEN Some((CHOOSE i \in 1..Len(HEXUPPER) : HEXUPPER[i] = a) - 1)
    ELSE IF \E i \in 1..Len(HEXLOWER) : HEXLOWER[i] = a
      THEN Some((CHOOSE i \in 1..Len(HEXLOWER) : HEXLOWER[i] = a) - 1)
      ELSE None

(***************************************************************************)
(* The string operations the program uses (std::str, urlencoding, glib).   *)
(***************************************************************************)
\* str::split_once(char): the text before and the text after the first c
split_once(s, c) ==
  IF \E i \in 1..Len(s) : s[i] = c
    THEN LET i == CHOOSE k \in 1..Len(s) : s[k] = c /\ \A j \in 1..(k - 1) : s[j] # c
         IN  Some(<< SubSeq(s, 1, i - 1), SubSeq(s, i + 1, Len(s)) >>)
    ELSE None

\* the pattern p occurs in s at index i
matches_at(s, p, i) == i + Len(p) - 1 <= Len(s) /\ SubSeq(s, i, i + Len(p) - 1) = p

contains(s, p) == \E i \in 1..Len(s) : matches_at(s, p, i)

\* str::rsplit_once(&str): the text before and the text after the last p
rsplit_once(s, p) ==
  IF contains(s, p)
    THEN LET i == CHOOSE k \in 1..Len(s) :
                    matches_at(s, p, k) /\ \A j \in (k + 1)..Len(s) : ~matches_at(s, p, j)
         IN  Some(<< SubSeq(s, 1, i - 1), SubSeq(s, i + Len(p), Len(s)) >>)
    ELSE None

\* str::replace(from, to) for a one-byte pattern
RECURSIVE replace(_, _, _)
replace(s, from, to) ==
  IF s = << >> THEN << >>
  ELSE (IF s[1] = from THEN to ELSE << s[1] >>) \o replace(Tail(s), from, to)

\* the ASCII members of char::is_whitespace
WHITESPACE == { " ", "\t", "\n", "\\x0B", "\\x0C", "\r" }

\* str::trim_end
RECURSIVE trim_end(_)
trim_end(s) ==
  IF s # << >> /\ s[Len(s)] \in WHITESPACE THEN trim_end(SubSeq(s, 1, Len(s) - 1)) ELSE s

\* urlencoding::decode_binary: every %XY with two hex digits becomes the byte
\* 16 * X + Y; a % that is not followed by two hex digits stays as it is
RECURSIVE decode_binary(_)
decode_binary(s) ==
  IF s = << >> THEN << >>
  ELSE IF /\ s[1] = "%"
          /\ Len(s) >= 3
          /\ is_some(from_hex_digit(s[2]))
          /\ is_some(from_hex_digit(s[3]))
    THEN << BYTES[16 * unwrap(from_hex_digit(s[2])) + unwrap(from_hex_digit(s[3])) + 1] >>
           \o decode_binary(SubSeq(s, 4, Len(s)))
    ELSE << s[1] >> \o decode_binary(Tail(s))

\* the atoms of the bytes 0x80..0xFF
HIGH == { BYTES[i] : i \in 129..256 }

\* a UTF-8 continuation byte
is_continuation(a) == a \in HIGH /\ code_of(a) \in 128..191

\* the length of the UTF-8 sequence a lead byte opens; 0 when it opens none
utf8_width(c) ==
  IF c \in 194..223 THEN 2 ELSE IF c \in 224..239 THEN 3 ELSE IF c \in 240..244 THEN 4 ELSE 0

\* String::from_utf8 succeeds
RECURSIVE is_utf8(_)
is_utf8(s) ==
  IF s = << >> THEN TRUE
  ELSE IF s[1] \notin HIGH THEN is_utf8(Tail(s))
  ELSE LET c == code_of(s[1])
           w == utf8_width(c)
       IN  /\ w # 0
           /\ Len(s) >= w
           /\ \A k \in 2..w : is_continuation(s[k])
           /\ (c = 224 => code_of(s[2]) >= 160)
           /\ (c = 237 => code_of(s[2]) <= 159)
           /\ (c = 240 => code_of(s[2]) >= 144)
           /\ (c = 244 => code_of(s[2]) <= 143)
           /\ is_utf8(SubSeq(s, w + 1, Len(s)))

\* urlencoding::decode: Ok(text) is Some(text), Err(FromUtf8Error) is None
decode(s) == IF is_utf8(decode_binary(s)) THEN Some(decode_binary(s)) ELSE None

\* the code points g_markup_escape_text writes as a numeric entity
is_escaped_control(c) ==
  c \in (1..8) \cup (11..12) \cup (14..31) \cup (127..132) \cup (134..159)

\* printf("&#x%x;", c) for c < 256
numeric_entity(c) ==
  << "&#x" >> \o (IF c >= 16 THEN << HEXLOWER[(c \div 16) + 1] >> ELSE << >>)
             \o << HEXLOWER[(c % 16) + 1], ";" >>

\* glib::markup_escape_text
RECURSIVE markup_escape_text(_)
markup_escape_text(s) ==
  IF s = << >> THEN << >>
  ELSE IF s[1] = "&" THEN << "&amp;" >> \o markup_escape_text(Tail(s))
  ELSE IF s[1] = "<" THEN << "&lt;" >> \o markup_escape_text(Tail(s))
  ELSE IF s[1] = ">" THEN << "&gt;" >> \o markup_escape_text(Tail(s))
  ELSE IF s[1] = "'" THEN << "&apos;" >> \o markup_escape_text(Tail(s))
  ELSE IF s[1] = "\"" THEN << "&quot;" >> \o markup_escape_text(Tail(s))
  ELSE IF is_byte(s[1]) /\ code_of(s[1]) < 128 /\ is_escaped_control(code_of(s[1]))
    THEN numeric_entity(code_of(s[1])) \o markup_escape_text(Tail(s))
  ELSE IF s[1] = "\\xC2" /\ Len(s) >= 2 /\ is_byte(s[2]) /\ is_escaped_control(code_of(s[2]))
    THEN numeric_entity(code_of(s[2])) \o markup_escape_text(SubSeq(s, 3, Len(s)))
  ELSE << s[1] >> \o markup_escape_text(Tail(s))

(***************************************************************************)
(* The session.                                                            *)
(***************************************************************************)
VARIABLES
  rofi_args,  \* the store: option key -> Option of its value
  env,        \* the process environment: variable -> Option of its value
  out,        \* the messages written to standard output, one per assuan_send
  status,     \* where the session is: "greeting", "active", or how it ended
  cmd,        \* the input line being processed (the last one read)
  nread,      \* the number of input lines read
  mark,       \* Len(out) when cmd was read: the reply to cmd is what follows
  rofi,       \* the picker run of the request being processed, if it made one
  build,      \* which pinentry runs: "lib" (lib.rs) or "bin" (main.rs, pinentry.rs)
  args        \* the parsed command line, RofiArgs: the display and the prompt

vars == << rofi_args, env, out, status, cmd, nread, mark, rofi, build, args >>

\* the reply lines
OK == << "OK" >>

BYE == << "BYE" >>

GREETING == << "OK", " ", "Please", " ", "go", " ", "ahead" >>

\* process::id() and env!("CARGO_PKG_VERSION"), fixed for one run of one build
process_id == << "<pid>" >>

CARGO_PKG_VERSION == << "<version>" >>

\* SETERROR's separator: a carriage return, 27 asterisks, a carriage return
sep == << "\r", "***************************", "\r" >>

\* HashMap::insert
insert(m, k, v) == [x \in DOMAIN m \cup {k} |-> IF x = k THEN v ELSE m[x]]

\* env::set_var
set_var(e, k, v) == [e EXCEPT ![k] = Some(v)]

\* an assuan_send that writes every message twice
assuan_send_twice(o, mesg) == o \o << mesg, mesg >>

\* Writer::assuan_send: one message, ended by a newline and flushed
assuan_send(o, mesg) == Append(o, mesg)

\* the display the program is started with: clap's default_value = ":0", or
\* the DISPLAY variable of the environment when it is set (the `env` attribute)
args_display(e) == unwrap_or(e["DISPLAY"], << ":0" >>)

\* the values --prompt / PINENTRY_USER_DATA can give
Prompts == { None, Some(<< >>), Some(<< "custom-prompt" >>) }

\* the environments the program is started in
Environments ==
  { [v \in {"GPG_TTY", "GPG_TERM", "LC_CTYPE", "LC_MESSAGES", "DISPLAY"} |->
       IF v = "DISPLAY" THEN d ELSE None] : d \in { None, Some(<< ":1" >>) } }

\* pinentry, lines 183-190: the base invocation flags
base_args(display) ==
  [k \in {"-dmenu", "-display", "-input", "-password", "-disable-history", "-l"} |->
     IF k = "-display" THEN Some(display)
     ELSE IF k = "-input" THEN Some(<< "/dev/null" >>)
     ELSE IF k = "-l" THEN Some(<< "0" >>)
     ELSE None]

\* pinentry, lines 192-199: a non-empty configured prompt is stored as -p
with_prompt(m, prompt) ==
  IF is_some(prompt) /\ unwrap(prompt) # << >> THEN insert(m, "-p", Some(unwrap(prompt))) ELSE m

\* the state when the store is built: the environment, the parsed command
\* line (RofiArgs, lines 8-17), nothing read and nothing written
Start ==
  /\ env \in Environments
  /\ args \in { [display |-> args_display(env), prompt |-> p] : p \in Prompts }
  /\ out = << >>
  /\ status = "greeting"
  /\ cmd = << >>
  /\ nread = 0
  /\ mark = 0
  /\ rofi = None

\* lib.rs: pinentry builds the store itself
Init ==
  /\ build = "lib"
  /\ Start
  /\ rofi_args = with_prompt(base_args(args.display), args.prompt)

\* main.rs, lines 61-64: a configured prompt, empty or not, is stored as -prompt
main_prompt(m, prompt) ==
  IF is_some(prompt) THEN insert(m, "-prompt", Some(unwrap(prompt))) ELSE m

\* main.rs, lines 52-66: main builds the store and hands it to pinentry
InitBin ==
  /\ build = "bin"
  /\ Start
  /\ rofi_args = main_prompt(base_args(args.display), args.prompt)

(***************************************************************************)
(* The input: the lines a session can read, and the picker runs a GETPIN   *)
(* can meet.                                                               *)
(***************************************************************************)
request(action, arg) == << action, " " >> \o arg

OptionLines ==
  { request("OPTION", a) : a \in
      { << "grab" >>,
        << "default-ok", "=", "_OK" >>,
        << "ttyname", "=", "/dev/pts/1" >>,
        << "ttyname" >>,
        << "ttytype", "=", "tmux-256color" >>,
        << "ttytype", "=", "xterm", "=", "1" >>,
        << "lc-ctype", "=", "C" >>,
        << "lc-messages", "=", "C" >> } }

GetinfoLines ==
  { << "GETINFO" >> } \cup
  { request("GETINFO", a) : a \in
      { << "pid" >>, << "ttyinfo" >>, << "flavor" >>, << "version" >>, << "foo" >> } }

SetpromptLines ==
  { << "SETPROMPT" >> } \cup
  { request("SETPROMPT", a) : a \in { << "Passphrase", ":" >>, << "a", ":", "b", ":", "c" >> } }

\* Y; a text with %0A, %22, a literal quote, markup characters, an encoded
\* one and a % that starts no escape; a text that decodes to one holding the
\* separator; bytes that are not UTF-8
SetdescLines ==
  { << "SETDESC" >> } \cup
  { request("SETDESC", a) : a \in
      { << "Y" >>,
        << "key", "%", "0", "A", " ", "%", "2", "2", "<", "a", "&", "b", "%", "3", "e", "\"", "%" >>,
        << "Y", "%", "0", "A", "***************************", "%", "0", "A", "W" >>,
        << "%", "F", "F" >> } }

SeterrorLines ==
  { request("SETERROR", a) : a \in
      { << "X" >>,
        << "Z" >>,
        << "X", "\r", "***************************", "\r", "V" >> } }

GetpinLines == { << "GETPIN" >> }

IgnoredLines == { request("SETKEYINFO", << "n/ABCD" >>), << "BYE" >> }

OtherLines == { << >>, << "getpin" >>, request("FOO", << "bar" >>) }

Lines ==
  OptionLines \cup GetinfoLines \cup SetpromptLines \cup SetdescLines \cup SeterrorLines
    \cup GetpinLines \cup IgnoredLines \cup OtherLines

\* what the picker can write to standard output before it exits with success
Stdouts == { << >>, << "\n" >>, << "secret", "\n" >> }

\* what the picker can write to standard error before it exits with failure
Stderrs == { << >>, << "cancelled" >>, << " ", "cancelled", "\n" >> }

\* process::Command::output(): the spawn fails, or the picker runs and exits
PickerRuns ==
  { [spawned |-> FALSE, success |-> FALSE, stdout |-> << >>, stderr |-> << >>] }
    \cup { [spawned |-> TRUE, success |-> TRUE, stdout |-> t, stderr |-> << >>] : t \in Stdouts }
    \cup { [spawned |-> TRUE, success |-> FALSE, stdout |-> << >>, stderr |-> d] : d \in Stderrs }

(***************************************************************************)
(* run_rofi                                                                *)
(***************************************************************************)
\* a flattening that gives the picker the keys without their values
flat_map_keys(m) == { << k >> : k \in DOMAIN m }

\* lines 62-68: the store flattened to arguments, each key followed by its
\* value if it has one; the order of the keys is the HashMap's, so the list is
\* kept as the set of its key groups
flat_map(m) == { << k >> \o m[k] : k \in DOMAIN m }

\* an ERR line that never carries the captured diagnostic
err_line_rofi(stderr) ==
  << "ERR", " ", "83886179", " ", "Operation", " ", "cancelled", " ", "<", "rofi", ">" >>

\* lines 79-85: the ERR line of a failed picker run
err_line(stderr) ==
  << "ERR", " ", "83886179", " ", "Operation", " ", "cancelled", " ", "<" >>
    \o (IF stderr = << >> THEN << "rofi" >> ELSE stderr) \o << ">" >>

\* a data line that carries the output as captured, not trimmed
pin_lines_untrimmed(stdout) ==
  IF stdout # << >> THEN << << "D", " " >> \o stdout >> ELSE << >>

\* lines 71-77: the data line of a successful picker run, if it writes one
pin_lines(stdout) ==
  IF trim_end(stdout) # << >> THEN << << "D", " " >> \o trim_end(stdout) >> ELSE << >>

\* a run_rofi that reports a picker that could not be started as a cancellation
run_rofi_spawn_cancels(o, run) ==
  IF run.spawned /\ run.success
    THEN [err |-> FALSE, ok |-> TRUE, out |-> o \o pin_lines(run.stdout)]
    ELSE [err |-> FALSE, ok |-> FALSE, out |-> assuan_send(o, err_line(run.stderr))]

\* lines 61-89: what run_rofi writes for a picker run and what it returns:
\* Err (the spawn failed), Ok(true) or Ok(false)
run_rofi(o, run) ==
  IF ~run.spawned THEN [err |-> TRUE, ok |-> FALSE, out |-> o]
  ELSE IF run.success THEN [err |-> FALSE, ok |-> TRUE, out |-> o \o pin_lines(run.stdout)]
  ELSE [err |-> FALSE, ok |-> FALSE, out |-> assuan_send(o, err_line(run.stderr))]

(***************************************************************************)
(* handle_command: the effect of each arm on the store and the environment *)
(***************************************************************************)
\* pinentry, line 205: the line split at its first space into action and
\* argument; without a space the whole line is the action
parse(line) == unwrap_or(split_once(line, " "), << line, << >> >>)

\* a match that lets GETINFO with any other argument pass as a request that
\* does nothing
match_arm_any_getinfo(action, arg) ==
  IF action = << "OPTION" >> THEN "OPTION"
  ELSE IF action = << "GETINFO" >> /\ arg = << "pid" >> THEN "GETINFO pid"
  ELSE IF action = << "GETINFO" >> /\ arg = << "ttyinfo" >> THEN "GETINFO ttyinfo"
  ELSE IF action = << "GETINFO" >> /\ arg = << "flavor" >> THEN "GETINFO flavor"
  ELSE IF action = << "GETINFO" >> /\ arg = << "version" >> THEN "GETINFO version"
  ELSE IF action = << "SETPROMPT" >> THEN "SETPROMPT"
  ELSE IF action = << "SETDESC" >> THEN "SETDESC"
  ELSE IF action = << "GETPIN" >> THEN "GETPIN"
  ELSE IF action = << "SETERROR" >> THEN "SETERROR"
  ELSE IF action \in { << "SETKEYINFO" >>, << "BYE" >>, << "GETINFO" >> } THEN "SETKEYINFO | BYE"
  ELSE "_"

\* lines 118-164: the arm of the match that takes (action, arg)
match_arm(action, arg) ==
  IF action = << "OPTION" >> THEN "OPTION"
  ELSE IF action = << "GETINFO" >> /\ arg = << "pid" >> THEN "GETINFO pid"
  ELSE IF action = << "GETINFO" >> /\ arg = << "ttyinfo" >> THEN "GETINFO ttyinfo"
  ELSE IF action = << "GETINFO" >> /\ arg = << "flavor" >> THEN "GETINFO flavor"
  ELSE IF action = << "GETINFO" >> /\ arg = << "version" >> THEN "GETINFO version"
  ELSE IF action = << "SETPROMPT" >> THEN "SETPROMPT"
  ELSE IF action = << "SETDESC" >> THEN "SETDESC"
  ELSE IF action = << "GETPIN" >> THEN "GETPIN"
  ELSE IF action = << "SETERROR" >> THEN "SETERROR"
  ELSE IF action \in { << "SETKEYINFO" >>, << "BYE" >> } THEN "SETKEYINFO | BYE"
  ELSE "_"

arm(line) == match_arm(parse(line)[1], parse(line)[2])

\* an OPTION that takes every name it does not know for ttyname
option_default_ttyname(e, arg) ==
  LET kv  == unwrap_or(split_once(arg, "="), << arg, << >> >>)
      opt == kv[1]
      val == kv[2]
  IN  IF opt = << "ttytype" >> THEN set_var(e, "GPG_TERM", val)
      ELSE IF opt = << "lc-ctype" >> THEN set_var(e, "LC_CTYPE", val)
      ELSE IF opt = << "lc-messages" >> THEN set_var(e, "LC_MESSAGES", val)
      ELSE set_var(e, "GPG_TTY", val)

\* an OPTION that sets nothing when its argument has no "="
option_needs_value(e, arg) ==
  LET kv  == unwrap_or(split_once(arg, "="), << << >>, << >> >>)
      opt == kv[1]
      val == kv[2]
  IN  IF opt = << "ttyname" >> THEN set_var(e, "GPG_TTY", val)
      ELSE IF opt = << "ttytype" >> THEN set_var(e, "GPG_TERM", val)
      ELSE IF opt = << "lc-ctype" >> THEN set_var(e, "LC_CTYPE", val)
      ELSE IF opt = << "lc-messages" >> THEN set_var(e, "LC_MESSAGES", val)
      ELSE e

\* lines 119-128: OPTION name=value sets the variable of a recognized name
option(e, arg) ==
  LET kv  == unwrap_or(split_once(arg, "="), << arg, << >> >>)
      opt == kv[1]
      val == kv[2]
  IN  IF opt = << "ttyname" >> THEN set_var(e, "GPG_TTY", val)
      ELSE IF opt = << "ttytype" >> THEN set_var(e, "GPG_TERM", val)
      ELSE IF opt = << "lc-ctype" >> THEN set_var(e, "LC_CTYPE", val)
      ELSE IF opt = << "lc-messages" >> THEN set_var(e, "LC_MESSAGES", val)
      ELSE e

\* a ttyinfo line with the display before the TTY type
ttyinfo_swapped(e) ==
  << "D", " " >> \o unwrap(e["GPG_TTY"]) \o << " " >> \o unwrap(e["DISPLAY"])
    \o << " " >> \o unwrap_or(e["GPG_TERM"], << >>)

\* lines 130-138: the data line of GETINFO ttyinfo
ttyinfo(e) ==
  << "D", " " >> \o unwrap(e["GPG_TTY"]) \o << " " >> \o unwrap_or(e["GPG_TERM"], << >>)
    \o << " " >> \o unwrap(e["DISPLAY"])

\* a SETPROMPT that stores its argument whether or not a prompt is stored
setprompt_overwrites(m, arg) == insert(m, "-p", Some(replace(arg, ":", << >>)))

\* lines 141-145: SETPROMPT stores the argument without its colons, unless a
\* prompt is stored already
setprompt(m, arg) ==
  IF "-p" \notin DOMAIN m THEN insert(m, "-p", Some(replace(arg, ":", << >>))) ELSE m

\* a description that is markup-escaped before it is decoded
unquoted_escapes_first(arg) ==
  replace(unwrap(decode(markup_escape_text(arg))), "\n", << "\r" >>)

\* lines 147-148: the description as it is stored
unquoted(arg) == markup_escape_text(replace(unwrap(decode(arg)), "\n", << "\r" >>))

\* a SETDESC that appends to the stored message
setdesc_appends(m, arg) ==
  IF "-mesg" \in DOMAIN m
    THEN insert(m, "-mesg", Some(unwrap(m["-mesg"]) \o unquoted(arg)))
    ELSE insert(m, "-mesg", Some(unquoted(arg)))

\* lines 146-150: SETDESC stores the description
setdesc(m, arg) == insert(m, "-mesg", Some(unquoted(arg)))

\* a SETERROR that stacks onto the whole stored message
prev_msg_whole(val) == val

\* line 158: the stored message after its last separator, all of it without one
prev_msg(val) == unwrap_or(rsplit_once(val, sep), << << >>, val >>)[2]

\* a SETERROR that also empties the picker's input source
seterror_clears_input(m, arg) ==
  IF "-mesg" \in DOMAIN m
    THEN [insert(m, "-mesg", Some(arg \o sep \o prev_msg(unwrap(m["-mesg"]))))
            EXCEPT !["-input"] = None]
    ELSE m

\* a SETERROR that stores the error text as the message when there is none
seterror_or_insert(m, arg) ==
  IF "-mesg" \in DOMAIN m
    THEN insert(m, "-mesg", Some(arg \o sep \o prev_msg(unwrap(m["-mesg"]))))
    ELSE insert(m, "-mesg", Some(arg))

\* lines 154-161: SETERROR puts the error text and the separator before the
\* stored message, if there is one
seterror(m, arg) ==
  IF "-mesg" \in DOMAIN m
    THEN insert(m, "-mesg", Some(arg \o sep \o prev_msg(unwrap(m["-mesg"]))))
    ELSE m

(***************************************************************************)
(* The steps of a session.  Each step after the greeting reads one line,   *)
(* splits it and runs handle_command on it to its end.                     *)
(***************************************************************************)
\* handle_command, lines 118-164: the arm each line of the input is matched by
Arms == [l \in Lines |-> arm(l)]

\* a pinentry that enters its loop without the greeting
Greeting_silent ==
  /\ status = "greeting"
  /\ status' = "active"
  /\ UNCHANGED << args, build, rofi_args, env, out, cmd, nread, mark, rofi >>

\* pinentry, lines 201-202
Greeting ==
  /\ status = "greeting"
  /\ out' = assuan_send(out, GREETING)
  /\ status' = "active"
  /\ UNCHANGED << args, build, rofi_args, env, cmd, nread, mark, rofi >>

\* pinentry, lines 203-204: the next line of the input is read
Read(line) ==
  /\ status = "active"
  /\ nread < MaxRequests
  /\ line \in Lines
  /\ cmd' = line
  /\ nread' = nread + 1
  /\ mark' = Len(out)

\* a handle_command that writes BYE and returns Ok(()) all the same
Finish_goes_on(o, ok) ==
  /\ out' = assuan_send(o, IF ok THEN OK ELSE BYE)
  /\ status' = "active"

\* handle_command, lines 166-175, and pinentry, line 207: OK and the session
\* goes on, or BYE and the session ends: with the UnknownAction error in the
\* library, with process::exit(1) in the program (pinentry.rs, lines 88-92)
Finish(o, ok) ==
  /\ out' = assuan_send(o, IF ok THEN OK ELSE BYE)
  /\ status' = IF ok THEN "active"
               ELSE IF build = "lib" THEN "unknown_action" ELSE "exit"

Option ==
  \E line \in Lines :
    /\ Read(line)
    /\ Arms[line] = "OPTION"
    /\ env' = option(env, parse(line)[2])
    /\ Finish(out, TRUE)
    /\ rofi' = None
    /\ UNCHANGED << args, build, rofi_args >>

GetinfoPid ==
  \E line \in Lines :
    /\ Read(line)
    /\ Arms[line] = "GETINFO pid"
    /\ Finish(assuan_send(out, << "D", " " >> \o process_id), TRUE)
    /\ rofi' = None
    /\ UNCHANGED << args, build, rofi_args, env >>

\* a ttyinfo that answers an unset variable with the protocol's BYE
GetinfoTtyinfo_bye ==
  \E line \in Lines :
    /\ Read(line)
    /\ Arms[line] = "GETINFO ttyinfo"
    /\ IF is_some(env["GPG_TTY"]) /\ is_some(env["DISPLAY"])
         THEN Finish(assuan_send(out, ttyinfo(env)), TRUE)
         ELSE Finish(out, FALSE)
    /\ rofi' = None
    /\ UNCHANGED << args, build, rofi_args, env >>

\* env::var(..)? returns the VarError of an unset variable before anything is
\* written; in the program (pinentry.rs, lines 55-60) env::var(..).expect(..)
\* panics there, the message being formatted before assuan_send is called
GetinfoTtyinfo ==
  \E line \in Lines :
    /\ Read(line)
    /\ Arms[line] = "GETINFO ttyinfo"
    /\ IF is_some(env["GPG_TTY"]) /\ is_some(env["DISPLAY"])
         THEN Finish(assuan_send(out, ttyinfo(env)), TRUE)
         ELSE /\ out' = out
              /\ status' = IF build = "lib" THEN "var_error" ELSE "panic"
    /\ rofi' = None
    /\ UNCHANGED << args, build, rofi_args, env >>

GetinfoFlavor ==
  \E line \in Lines :
    /\ Read(line)
    /\ Arms[line] = "GETINFO flavor"
    /\ Finish(assuan_send(out, << "D", " ", "keyring" >>), TRUE)
    /\ rofi' = None
    /\ UNCHANGED << args, build, rofi_args, env >>

GetinfoVersion ==
  \E line \in Lines :
    /\ Read(line)
    /\ Arms[line] = "GETINFO version"
    /\ Finish(assuan_send(out, << "D", " " >> \o CARGO_PKG_VERSION), TRUE)
    /\ rofi' = None
    /\ UNCHANGED << args, build, rofi_args, env >>

Setprompt ==
  \E line \in Lines :
    /\ Read(line)
    /\ Arms[line] = "SETPROMPT"
    /\ rofi_args' = setprompt(rofi_args, parse(line)[2])
    /\ Finish(out, TRUE)
    /\ rofi' = None
    /\ UNCHANGED << args, build, env >>

\* decode(arg).unwrap() panics when the decoded bytes are not UTF-8
Setdesc ==
  \E line \in Lines :
    /\ Read(line)
    /\ Arms[line] = "SETDESC"
    /\ IF is_some(decode(parse(line)[2]))
         THEN /\ rofi_args' = setdesc(rofi_args, parse(line)[2])
              /\ Finish(out, TRUE)
         ELSE /\ status' = "panic"
              /\ UNCHANGED << rofi_args, out >>
    /\ rofi' = None
    /\ UNCHANGED << args, build, env >>

\* a GETPIN that takes the stored message out of the store once it was shown
Getpin_drops_mesg ==
  \E line \in Lines, run \in PickerRuns :
    /\ Read(line)
    /\ Arms[line] = "GETPIN"
    /\ rofi' = Some([args |-> flat_map(rofi_args), run |-> run])
    /\ IF run_rofi(out, run).err
         THEN /\ out' = out
              /\ status' = IF build = "lib" THEN "io_error" ELSE "panic"
         ELSE Finish(run_rofi(out, run).out, run_rofi(out, run).ok)
    /\ rofi_args' = [k \in DOMAIN rofi_args \ { "-mesg" } |-> rofi_args[k]]
    /\ UNCHANGED << args, build, env >>

\* lines 151-153: is_test is false in pinentry, so the picker is run; the
\* io::Error of a failed spawn is returned with `?`, and in the program
\* (pinentry.rs, line 73) run_rofi(..).unwrap() panics on it
Getpin ==
  \E line \in Lines, run \in PickerRuns :
    /\ Read(line)
    /\ Arms[line] = "GETPIN"
    /\ rofi' = Some([args |-> flat_map(rofi_args), run |-> run])
    /\ IF run_rofi(out, run).err
         THEN /\ out' = out
              /\ status' = IF build = "lib" THEN "io_error" ELSE "panic"
         ELSE Finish(run_rofi(out, run).out, run_rofi(out, run).ok)
    /\ UNCHANGED << args, build, rofi_args, env >>

Seterror ==
  \E line \in Lines :
    /\ Read(line)
    /\ Arms[line] = "SETERROR"
    /\ rofi_args' = seterror(rofi_args, parse(line)[2])
    /\ Finish(out, TRUE)
    /\ rofi' = None
    /\ UNCHANGED << args, build, env >>

\* a BYE that is answered with OK and then ends the session
Ignored_bye_ends ==
  \E line \in Lines :
    /\ Read(line)
    /\ Arms[line] = "SETKEYINFO | BYE"
    /\ out' = assuan_send(out, OK)
    /\ status' = IF parse(line)[1] = << "BYE" >> THEN "eof" ELSE "active"
    /\ rofi' = None
    /\ UNCHANGED << args, build, rofi_args, env >>

\* line 162: SETKEYINFO and BYE do nothing
Ignored ==
  \E line \in Lines :
    /\ Read(line)
    /\ Arms[line] = "SETKEYINFO | BYE"
    /\ Finish(out, TRUE)
    /\ rofi' = None
    /\ UNCHANGED << args, build, rofi_args, env >>

\* line 163: any other request
Unknown ==
  \E line \in Lines :
    /\ Read(line)
    /\ Arms[line] = "_"
    /\ Finish(out, FALSE)
    /\ rofi' = None
    /\ UNCHANGED << args, build, rofi_args, env >>

\* pinentry, lines 203 and 209: the input ends and pinentry returns Ok(())
EndOfInput ==
  /\ status = "active"
  /\ status' = "eof"
  /\ UNCHANGED << args, build, rofi_args, env, out, cmd, nread, mark, rofi >>

Next ==
  \/ Greeting
  \/ Option
  \/ GetinfoPid
  \/ GetinfoTtyinfo
  \/ GetinfoFlavor
  \/ GetinfoVersion
  \/ Setprompt
  \/ Setdesc
  \/ Getpin
  \/ Seterror
  \/ Ignored
  \/ Unknown
  \/ EndOfInput

\* the library's pinentry
Spec == Init /\ [][Next]_vars

\* the program: main.rs and pinentry.rs
SpecBin == InitBin /\ [][Next]_vars

\* either of the two
SpecBoth == (Init \/ InitBin) /\ [][Next]_vars

(***************************************************************************)
(* What the properties below speak about.                                  *)
(***************************************************************************)
\* a request has been read: cmd is the request processed last
Processed == nread > 0

\* the action and the argument of the request processed last
Action == parse(cmd)[1]

Arg == parse(cmd)[2]

\* the messages written in reply to the request processed last
Reply == SubSeq(out, mark + 1, Len(out))

\* this step reads and processes a request
ReadsRequest == nread' = nread + 1

\* the picker run of the request processed last: it was made, it exited, and how
PickerExited == is_some(rofi) /\ unwrap(rofi).run.spawned

PickerSucceeded == PickerExited /\ unwrap(rofi).run.success

PickerFailed == PickerExited /\ ~unwrap(rofi).run.success

\* the stored message and the stored prompt
HasMesg == "-mesg" \in DOMAIN rofi_args

Mesg == unwrap(rofi_args["-mesg"])

HasPrompt == "-p" \in DOMAIN rofi_args

\* the first atom of a message, "" for the empty message
Head1(m) == IF m = << >> THEN "" ELSE m[1]

\* the vocabulary of actions
Vocabulary ==
  { << "OPTION" >>, << "GETINFO" >>, << "SETPROMPT" >>, << "SETDESC" >>, << "GETPIN" >>,
    << "SETERROR" >>, << "SETKEYINFO" >>, << "BYE" >> }

(***************************************************************************)
(* C1.  When a request whose action is not in the vocabulary (FOO bar) is  *)
(* processed, its reply is the single line BYE and the session is ended;   *)
(* once the session is ended no line is read and nothing is written, also  *)
(* when the input holds more lines.                                        *)
(***************************************************************************)
C1_UnknownActionEndsSession ==
  /\ [][(ReadsRequest /\ parse(cmd')[1] \notin Vocabulary)
          => (out' = Append(out, << "BYE" >>) /\ status' = "unknown_action")]_vars
  /\ [][status = "unknown_action" => UNCHANGED vars]_vars

\* FOO bar was answered with BYE alone, and the input was not at its end
C1_Witness ==
  /\ cmd = << "FOO", " ", "bar" >>
  /\ Reply = << << "BYE" >> >>
  /\ status = "unknown_action"
  /\ nread < MaxRequests

(***************************************************************************)
(* C2.  A GETPIN whose picker exits with failure does not end the session: *)
(* after the ERR line the session is still active (or has met the end of   *)
(* its input), and no BYE was written for the request.                     *)
(***************************************************************************)
C2_CancelKeepsSession ==
  (Processed /\ Action = << "GETPIN" >> /\ PickerFailed)
    => (status \in { "active", "eof" } /\ \A i \in 1..Len(Reply) : Reply[i] # << "BYE" >>)

(***************************************************************************)
(* C3.  For a GETPIN whose picker exits with failure and the text d on     *)
(* standard error, the reply holds exactly one ERR message, it is          *)
(* ERR 83886179 Operation cancelled <d>, and the reply holds no OK.        *)
(***************************************************************************)
ErrCancelled(d) ==
  << "ERR", " ", "83886179", " ", "Operation", " ", "cancelled", " ", "<" >> \o d \o << ">" >>

C3_CancelReply ==
  (Processed /\ Action = << "GETPIN" >> /\ PickerFailed /\ unwrap(rofi).run.stderr # << >>)
    => /\ Cardinality({ i \in 1..Len(Reply) : Head1(Reply[i]) = "ERR" }) = 1
       /\ \E i \in 1..Len(Reply) : Reply[i] = ErrCancelled(unwrap(rofi).run.stderr)
       /\ \A i \in 1..Len(Reply) : Head1(Reply[i]) # "OK"

\* the picker failed with "cancelled" on standard error
C3_Witness ==
  /\ Action = << "GETPIN" >>
  /\ PickerFailed
  /\ unwrap(rofi).run.stderr = << "cancelled" >>
  /\ Reply[1] = << "ERR", " ", "83886179", " ", "Operation", " ", "cancelled", " ", "<",
                   "cancelled", ">" >>

(***************************************************************************)
(* C4.  For a GETPIN whose picker exits with success: if its output        *)
(* without the trailing whitespace is a non-empty text t, the reply is     *)
(* D t and then OK; if it is empty, the reply is OK alone.                 *)
(***************************************************************************)
C4_PinReply ==
  (Processed /\ Action = << "GETPIN" >> /\ PickerSucceeded)
    => LET t == trim_end(unwrap(rofi).run.stdout)
       IN  IF t # << >>
             THEN Reply = << << "D", " " >> \o t, << "OK" >> >>
             ELSE Reply = << << "OK" >> >>

\* the picker wrote "secret\n" and the reply is D secret, OK
C4_Witness ==
  /\ Action = << "GETPIN" >>
  /\ PickerSucceeded
  /\ unwrap(rofi).run.stdout = << "secret", "\n" >>
  /\ Reply = << << "D", " ", "secret" >>, << "OK" >> >>

(***************************************************************************)
(* C5.  The prompt is first-write-wins: once a prompt is stored, no step   *)
(* of the session changes or removes it, whatever the request.             *)
(***************************************************************************)
C5_PromptFirstWriteWins ==
  [][HasPrompt => ("-p" \in DOMAIN rofi_args' /\ rofi_args'["-p"] = rofi_args["-p"])]_vars

\* the first SETPROMPT stored the empty string, and SETPROMPT Passphrase: was
\* processed after it
C5_Witness ==
  /\ cmd = << "SETPROMPT", " ", "Passphrase", ":" >>
  /\ HasPrompt
  /\ rofi_args["-p"] = Some(<< >>)

(***************************************************************************)
(* C6.  With the description Y stored by SETDESC, SETERROR X makes the     *)
(* message X, the separator, Y; a further SETERROR Z makes it Z, the       *)
(* separator, Y.  The separator is a carriage return, 27 asterisks and a   *)
(* carriage return.  Y is a description that does not hold the separator.  *)
(***************************************************************************)
Separator == << "\r", "***************************", "\r" >>

\* the descriptions SETDESC stores, those that do not hold the separator
PlainDescriptions ==
  { d \in { unquoted(parse(l)[2]) : l \in { x \in SetdescLines : is_some(decode(parse(x)[2])) } } :
      ~contains(d, Separator) }

ErrorTexts == { parse(l)[2] : l \in SeterrorLines }

C7_SetdescReplaces ==
  (Processed /\ Action = << "SETDESC" >> /\ is_some(decode(Arg)))
    => (HasMesg /\ Mesg = unquoted(Arg))

\* a SETDESC Y processed as the third request
C7_Witness ==
  /\ nread = 3
  /\ cmd = << "SETDESC", " ", "Y" >>
  /\ HasMesg
  /\ Mesg = << "Y" >>

(***************************************************************************)
(* C8.  SETDESC stores its argument percent-decoded first, then with every *)
(* newline replaced by a carriage return, then markup-escaped: %0A ends up *)
(* as a carriage return, %22 and a literal quote as &quot;, and a decoded  *)
(* character such as %3e is escaped like a literal one.                    *)
(***************************************************************************)
\* SETDESC arguments and the texts they are to be stored as
DescriptionExamples ==
  { << << "Y" >>, << "Y" >> >>,
    << << "key", "%", "0", "A", " ", "%", "2", "2", "<", "a", "&", "b", "%", "3", "e", "\"", "%" >>,
       << "key", "\r", " ", "&quot;", "&lt;", "a", "&amp;", "b", "&gt;", "&quot;", "%" >> >>,
    << << "Y", "%", "0", "A", "***************************", "%", "0", "A", "W" >>,
       << "Y", "\r", "***************************", "\r", "W" >> >> }

C8_SetdescTransform ==
  \A e \in DescriptionExamples :
    (Processed /\ Action = << "SETDESC" >> /\ Arg = e[1]) => (HasMesg /\ Mesg = e[2])

\* the description with %0A, %22, %3e and a literal quote was stored
C8_Witness ==
  /\ Action = << "SETDESC" >>
  /\ Arg = << "key", "%", "0", "A", " ", "%", "2", "2", "<", "a", "&", "b", "%", "3", "e", "\"", "%" >>
  /\ HasMesg
  /\ Mesg = << "key", "\r", " ", "&quot;", "&lt;", "a", "&amp;", "b", "&gt;", "&quot;", "%" >>

(***************************************************************************)
(* C9.  Every OPTION of a recognized name sets the value of that name and  *)
(* no other, no other request changes the four values, and GETINFO ttyinfo *)
(* with the TTY name and the display known replies D, the TTY name, the    *)
(* TTY type (empty when never set) and the display, space-joined in this   *)
(* order, and then OK.                                                     *)
(***************************************************************************)
\* the OPTION requests of a recognized name: the variable and the value set
RecognizedOptions ==
  { [line |-> << "OPTION", " ", "ttyname", "=", "/dev/pts/1" >>,
     var |-> "GPG_TTY", val |-> << "/dev/pts/1" >>],
    [line |-> << "OPTION", " ", "ttyname" >>, var |-> "GPG_TTY", val |-> << >>],
    [line |-> << "OPTION", " ", "ttytype", "=", "tmux-256color" >>,
     var |-> "GPG_TERM", val |-> << "tmux-256color" >>],
    [line |-> << "OPTION", " ", "ttytype", "=", "xterm", "=", "1" >>,
     var |-> "GPG_TERM", val |-> << "xterm", "=", "1" >>],
    [line |-> << "OPTION", " ", "lc-ctype", "=", "C" >>, var |-> "LC_CTYPE", val |-> << "C" >>],
    [line |-> << "OPTION", " ", "lc-messages", "=", "C" >>,
     var |-> "LC_MESSAGES", val |-> << "C" >>] }

TtyinfoLine ==
  << "D", " " >> \o env["GPG_TTY"][1] \o << " " >>
    \o (IF env["GPG_TERM"] = << >> THEN << >> ELSE env["GPG_TERM"][1])
    \o << " " >> \o env["DISPLAY"][1]

C9_TtyinfoReflectsOptions ==
  [][ReadsRequest
       => /\ \A o \in RecognizedOptions :
               cmd' = o.line => env' = [env EXCEPT ![o.var] = << o.val >>]
          /\ (cmd' \notin { o.line : o \in RecognizedOptions }) => env' = env
          /\ (cmd' = << "GETINFO", " ", "ttyinfo" >> /\ env["GPG_TTY"] # << >> /\ env["DISPLAY"] # << >>)
               => out' = out \o << TtyinfoLine, << "OK" >> >>]_vars

\* OPTION ttyname and OPTION ttytype were processed, then GETINFO ttyinfo
C9_Witness ==
  /\ cmd = << "GETINFO", " ", "ttyinfo" >>
  /\ Reply = << << "D", " ", "/dev/pts/1", " ", "xterm", "=", "1", " ", ":1" >>, << "OK" >> >>

(***************************************************************************)
(* C10.  Every request that completes without the error path of the        *)
(* picker (OPTION, SETPROMPT, SETDESC, SETERROR, SETKEYINFO, BYE, GETINFO  *)
(* with a valid argument and its values known, GETPIN with a picker that   *)
(* succeeds) writes exactly one OK, as the last line of its reply, after   *)
(* at most one D line, and writes neither BYE nor ERR.                     *)
(***************************************************************************)
\* the request processed last is one of those, by its text and by what it met
CompletesNormally ==
  /\ Processed
  /\ \/ Action \in { << "OPTION" >>, << "SETPROMPT" >>, << "SETERROR" >>, << "SETKEYINFO" >>,
                     << "BYE" >> }
     \/ Action = << "SETDESC" >> /\ is_some(decode(Arg))
     \/ Action = << "GETINFO" >> /\ Arg \in { << "pid" >>, << "flavor" >>, << "version" >> }
     \/ Action = << "GETINFO" >> /\ Arg = << "ttyinfo" >>
          /\ env["GPG_TTY"] # << >> /\ env["DISPLAY"] # << >>
     \/ Action = << "GETPIN" >> /\ PickerSucceeded

C10_OneOkLast ==
  CompletesNormally
    => /\ Len(Reply) \in 1..2
       /\ Reply[Len(Reply)] = << "OK" >>
       /\ Len(Reply) = 2 => Head1(Reply[1]) = "D"
       /\ \A i \in 1..Len(Reply) : Head1(Reply[i]) \notin { "BYE", "ERR" }

\* a GETPIN whose picker succeeded, answered with a data line and OK
C10_Witness ==
  /\ CompletesNormally
  /\ Action = << "GETPIN" >>
  /\ Len(Reply) = 2
  /\ Head1(Reply[1]) = "D"
  /\ Reply[2] = << "OK" >>

(***************************************************************************)
(* C11.  In every state of a session the store holds the base invocation   *)
(* flags it was initialized with: -dmenu, -password and -disable-history   *)
(* without a value, -input /dev/null, -l 0, and -display with the display  *)
(* the program was started with.  No request removes or changes a key      *)
(* other than -p and -mesg, and -p and -mesg are the only keys a request   *)
(* adds.                                                                   *)
(***************************************************************************)
BaseFlags == { "-dmenu", "-password", "-disable-history", "-input", "-l", "-display" }

BaseFlagsHeld ==
  /\ BaseFlags \subseteq DOMAIN rofi_args
  /\ rofi_args["-dmenu"] = None
  /\ rofi_args["-password"] = None
  /\ rofi_args["-disable-history"] = None
  /\ rofi_args["-input"] = Some(<< "/dev/null" >>)
  /\ rofi_args["-l"] = Some(<< "0" >>)
  /\ rofi_args["-display"] = Some(args.display)

OnlyPromptAndMesgChange ==
  /\ DOMAIN rofi_args \subseteq DOMAIN rofi_args'
  /\ DOMAIN rofi_args' \subseteq DOMAIN rofi_args \cup { "-p", "-mesg" }
  /\ \A k \in DOMAIN rofi_args \ { "-p", "-mesg" } : rofi_args'[k] = rofi_args[k]

C11_BaseFlagsKept ==
  /\ []BaseFlagsHeld
  /\ [][OnlyPromptAndMesgChange]_vars

\* a prompt, a description and an error have been stored, in three requests
C11_Witness ==
  /\ BaseFlagsHeld
  /\ nread = 3
  /\ Action = << "SETERROR" >>
  /\ HasPrompt
  /\ HasMesg
  /\ contains(Mesg, sep)

(***************************************************************************)
(* C12.  When a non-empty prompt is configured at startup, the store holds *)
(* it before the first request and in every later state as its only       *)
(* prompt option: no SETPROMPT replaces it or adds a second one, and every *)
(* picker is invoked with the configured prompt as its only prompt.        *)
(***************************************************************************)
ConfiguredPrompt == is_some(args.prompt) /\ unwrap(args.prompt) # << >>

\* the keys of a store that are prompt options of the picker
PromptOptions(m) == { "-p", "-prompt" } \cap DOMAIN m

C12_ConfiguredPromptOnly ==
  ConfiguredPrompt
    => /\ Cardinality(PromptOptions(rofi_args)) = 1
       /\ \A k \in PromptOptions(rofi_args) : rofi_args[k] = args.prompt
       /\ is_some(rofi) => unwrap(rofi).args = flat_map(rofi_args)

(***************************************************************************)
(* C13.  An OPTION request whose name is not ttyname, ttytype, lc-ctype or *)
(* lc-messages (grab, default-ok=_OK) is accepted and ignored: its reply   *)
(* is the single line OK, the session goes on, and the store and the       *)
(* TTY and locale values are what they were before the request.            *)
(***************************************************************************)
\* the name of an option: its argument up to the first "="
OptionName(arg) == unwrap_or(split_once(arg, "="), << arg, << >> >>)[1]

KnownOptionNames == { << "ttyname" >>, << "ttytype" >>, << "lc-ctype" >>, << "lc-messages" >> }

UnknownOption(line) ==
  /\ parse(line)[1] = << "OPTION" >>
  /\ OptionName(parse(line)[2]) \notin KnownOptionNames

C13_UnknownOptionIgnored ==
  [][(ReadsRequest /\ UnknownOption(cmd'))
       => /\ out' = Append(out, << "OK" >>)
          /\ status' = "active"
          /\ rofi_args' = rofi_args
          /\ env' = env]_vars

\* an unknown option as the third request, after a description was stored and
\* the TTY name was set
C13_Witness ==
  /\ nread = 3
  /\ UnknownOption(cmd)
  /\ Reply = << << "OK" >> >>
  /\ status = "active"
  /\ HasMesg
  /\ env["GPG_TTY"] = Some(<< "/dev/pts/1" >>)

(***************************************************************************)
(* C14.  The greeting line `OK Please go ahead` is the first line written  *)
(* in every session, and it is written before the first request is read:   *)
(* until it is written nothing is read or written, afterwards it is the    *)
(* first line of the output, and the output already held it when the       *)
(* request processed last was read, whatever the requests are.             *)
(***************************************************************************)
GreetingLine == << "OK", " ", "Please", " ", "go", " ", "ahead" >>

C14_GreetingFirst ==
  /\ status = "greeting" => nread = 0 /\ out = << >>
  /\ status # "greeting" => Len(out) >= 1 /\ out[1] = GreetingLine
  /\ Processed => mark >= 1

\* a session whose first request is unrecognized: the greeting, then BYE
C14_Witness ==
  /\ nread = 1
  /\ Action \notin Vocabulary
  /\ out = << GreetingLine, << "BYE" >> >>

\* a session with empty input: the greeting is all that is written
C14_WitnessEmptyInput ==
  /\ status = "eof"
  /\ nread = 0
  /\ out = << GreetingLine >>

(***************************************************************************)
(* C15.  For every description D stored by SETDESC, whatever its text,     *)
(* each SETERROR E that follows with no SETDESC in between makes the       *)
(* stored message E, the separator, and the complete D: whether the stored *)
(* message is D itself or an earlier error text, the separator and D.      *)
(***************************************************************************)
\* the descriptions SETDESC stores: every transformed text, also one that
\* holds the separator
Descriptions ==
  { unquoted(parse(l)[2]) : l \in { x \in SetdescLines : is_some(decode(parse(x)[2])) } }

AnyArgumentActions ==
  { << "OPTION" >>, << "SETPROMPT" >>, << "SETDESC" >>, << "GETPIN" >>, << "SETERROR" >>,
    << "SETKEYINFO" >>, << "BYE" >> }

GetinfoArguments == { << "pid" >>, << "ttyinfo" >>, << "flavor" >>, << "version" >> }

Accepted(line) ==
  \/ parse(line)[1] \in AnyArgumentActions
  \/ parse(line)[1] = << "GETINFO" >> /\ parse(line)[2] \in GetinfoArguments

\* the session was ended by a malformed request
EndedAsMalformed == status \in { "unknown_action", "exit" }

C16_AcceptedExactlyVocabulary ==
  /\ [][ReadsRequest
          => /\ ~Accepted(cmd')
                  => /\ out' = Append(out, << "BYE" >>)
                     /\ EndedAsMalformed'
                     /\ rofi_args' = rofi_args
                     /\ env' = env
             /\ Accepted(cmd') => SubSeq(out', Len(out) + 1, Len(out')) # << << "BYE" >> >>]_vars
  /\ [][EndedAsMalformed => UNCHANGED vars]_vars

\* GETINFO with an argument that is not one of the four, after two accepted
\* requests
C16_Witness ==
  /\ nread = 3
  /\ cmd = << "GETINFO", " ", "foo" >>
  /\ Reply = << << "BYE" >> >>
  /\ EndedAsMalformed

(***************************************************************************)
(* C17.  When GETINFO ttyinfo is processed while the TTY name (GPG_TTY) or *)
(* the display (DISPLAY) is unset, no line at all is written for the       *)
(* request, the session ends there with a failure of the program that is   *)
(* not the ending of a malformed request, and afterwards nothing is read   *)
(* or written.                                                             *)
(***************************************************************************)
\* the session was ended by a failure of the program: an error returned by
\* pinentry that is not UnknownAction, or a panic
EndedFatally == status \in { "var_error", "io_error", "panic" }

C17_TtyinfoUnsetIsFatal ==
  /\ [][(/\ ReadsRequest
         /\ cmd' = << "GETINFO", " ", "ttyinfo" >>
         /\ (env["GPG_TTY"] = None \/ env["DISPLAY"] = None))
          => /\ out' = out
             /\ status' \in { "var_error", "panic" }
             /\ rofi_args' = rofi_args
             /\ env' = env]_vars
  /\ [][EndedFatally => UNCHANGED vars]_vars

\* the TTY name was set by OPTION, the display is unset: ttyinfo as the second
\* request writes nothing and ends the session
C17_Witness ==
  /\ nread = 2
  /\ cmd = << "GETINFO", " ", "ttyinfo" >>
  /\ env["GPG_TTY"] = Some(<< "/dev/pts/1" >>)
  /\ env["DISPLAY"] = None
  /\ Reply = << >>
  /\ EndedFatally

(***************************************************************************)
(* C18.  When the picker cannot be started during GETPIN, no line at all   *)
(* (no ERR, D, OK or BYE) is written for the request, the session ends     *)
(* with the input/output error of the spawn, which is not the ending of a  *)
(* cancellation, and afterwards nothing is read or written.                *)
(***************************************************************************)
\* the picker of the request read in this step could not be started
SpawnFails == is_some(rofi') /\ ~unwrap(rofi').run.spawned

C18_SpawnFailureIsFatal ==
  /\ [][(ReadsRequest /\ parse(cmd')[1] = << "GETPIN" >> /\ SpawnFails)
          => /\ out' = out
             /\ status' = "io_error"
             /\ rofi_args' = rofi_args
             /\ env' = env]_vars
  /\ [][status = "io_error" => UNCHANGED vars]_vars

\* GETPIN as the third request, the picker cannot be started
C18_Witness ==
  /\ nread = 3
  /\ Action = << "GETPIN" >>
  /\ is_some(rofi)
  /\ ~unwrap(rofi).run.spawned
  /\ Reply = << >>
  /\ status = "io_error"

(***************************************************************************)
(* C19.  GETPIN leaves the store exactly as it was, whatever the picker    *)
(* does (a secret, empty output, a cancellation, no start at all): the     *)
(* picker is given the store as the earlier requests left it, and the      *)
(* prompt and the message, a stacked error included, are the same after    *)
(* the request as before it.                                               *)
(***************************************************************************)
C19_GetpinKeepsStore ==
  [][(ReadsRequest /\ parse(cmd')[1] = << "GETPIN" >>)
       => /\ rofi_args' = rofi_args
          /\ is_some(rofi')
          /\ unwrap(rofi').args = { << k >> \o rofi_args[k] : k \in DOMAIN rofi_args }]_vars

\* SETDESC, SETERROR, GETPIN: the picker was given the stacked message and the
\* store still holds it
C19_Witness ==
  /\ nread = 3
  /\ Action = << "GETPIN" >>
  /\ PickerSucceeded
  /\ HasMesg
  /\ contains(Mesg, Separator)
  /\ (<< "-mesg" >> \o rofi_args["-mesg"]) \in unwrap(rofi).args

\* SETDESC and two GETPIN, both answered with the secret: the second picker
\* was given the message too
C19_WitnessSecondGetpin ==
  /\ nread = 3
  /\ Action = << "GETPIN" >>
  /\ Len(out) = 6
  /\ out[3] = << "D", " ", "secret" >>
  /\ out[5] = << "D", " ", "secret" >>
  /\ HasMesg
  /\ (<< "-mesg" >> \o rofi_args["-mesg"]) \in unwrap(rofi).args

(***************************************************************************)
(* C20.  When the picker fails, the diagnostic of the ERR line is the      *)
(* captured standard error without the whitespace around it, or `rofi`     *)
(* when standard error is empty; the ERR line holds no newline, so a       *)
(* trailing newline of standard error is not part of the reply.            *)
(***************************************************************************)
\* a text without the whitespace before and after it
Trimmed(s) ==
  LET inked == { i \in 1..Len(s) : s[i] \notin WHITESPACE }
  IN  IF inked = { } THEN << >>
      ELSE SubSeq(s, CHOOSE i \in inked : \A j \in inked : i <= j,
                     CHOOSE i \in inked : \A j \in inked : i >= j)

Diagnostic(stderr) == IF stderr = << >> THEN << "rofi" >> ELSE Trimmed(stderr)

C20_ErrDiagnosticTrimmed ==
  (Processed /\ Action = << "GETPIN" >> /\ PickerFailed)
    => /\ Len(Reply) >= 1
       /\ Reply[1] = ErrCancelled(Diagnostic(unwrap(rofi).run.stderr))
       /\ \A i \in 1..Len(Reply[1]) : Reply[1][i] # "\n"

(***************************************************************************)
(* C21.  The picker is run exactly once by each GETPIN request and by no   *)
(* other request, with the arguments flattened from the store as the       *)
(* earlier requests left it.  The reply to the GETPIN is written in the    *)
(* same step, from what the exited picker returned (its secret in the D    *)
(* line, OK or BYE as the last line), and the whole reply of a request is  *)
(* in the output when the next line is read.                               *)
(***************************************************************************)
\* the lines written by the step
Written == SubSeq(out', Len(out) + 1, Len(out'))

C21_PickerOncePerGetpin ==
  [][ReadsRequest
       => /\ mark' = Len(out)
          /\ parse(cmd')[1] # << "GETPIN" >> => rofi' = << >>
          /\ parse(cmd')[1] = << "GETPIN" >>
               => /\ Len(rofi') = 1
                  /\ rofi'[1].args = { << k >> \o rofi_args[k] : k \in DOMAIN rofi_args }
                  /\ rofi'[1].run.spawned
                       => /\ Len(Written) >= 1
                          /\ Written[Len(Written)] \in { << "OK" >>, << "BYE" >> }
                  /\ (rofi'[1].run.spawned /\ rofi'[1].run.success
                        /\ rofi'[1].run.stdout = << "secret", "\n" >>)
                       => Written = << << "D", " ", "secret" >>, << "OK" >> >>]_vars

\* SETPROMPT, SETDESC, GETPIN: the picker got the prompt and the description
\* of the two earlier requests, and its secret is in the reply
C21_Witness ==
  /\ nread = 3
  /\ Action = << "GETPIN" >>
  /\ Len(rofi) = 1
  /\ HasPrompt
  /\ HasMesg
  /\ rofi_args["-p"] = Some(<< "Passphrase" >>)
  /\ rofi_args["-mesg"] = Some(<< "Y" >>)
  /\ (<< "-p" >> \o rofi_args["-p"]) \in rofi[1].args
  /\ (<< "-mesg" >> \o rofi_args["-mesg"]) \in rofi[1].args
  /\ Reply = << << "D", " ", "secret" >>, << "OK" >> >>

(***************************************************************************)
(* C22.  A BYE request, like SETKEYINFO, is ignored: its reply is the      *)
(* single line OK, the store and the environment are what they were, and   *)
(* the session is not ended by it: while the input has lines left, the     *)
(* next request can be read and processed in the state the step leaves.    *)
(***************************************************************************)
IgnoredActions == { << "BYE" >>, << "SETKEYINFO" >> }

C22_ByeIsIgnored ==
  [][(ReadsRequest /\ parse(cmd')[1] \in IgnoredActions)
       => /\ out' = Append(out, << "OK" >>)
          /\ status' = "active"
          /\ rofi_args' = rofi_args
          /\ env' = env
          /\ nread' < MaxRequests => (ENABLED GetinfoFlavor)']_vars

\* BYE as the second request, after a description was stored: OK, the
\* description is still stored and the next request can be read
C22_Witness ==
  /\ nread = 2
  /\ cmd = << "BYE" >>
  /\ Reply = << << "OK" >> >>
  /\ status = "active"
  /\ HasMesg
  /\ ENABLED GetinfoFlavor

(***************************************************************************)
(* C23.  SETERROR processed while the store holds no message changes       *)
(* nothing: no message key is created, store and environment are what      *)
(* they were, and the reply is the single line OK.  A SETDESC that follows *)
(* it stores its transformed description alone, with no error text and no  *)
(* separator before it.                                                    *)
(***************************************************************************)
C23_SeterrorWithoutMessage ==
  /\ [][(ReadsRequest /\ parse(cmd')[1] = << "SETERROR" >> /\ ~HasMesg)
          => /\ rofi_args' = rofi_args
             /\ "-mesg" \notin DOMAIN rofi_args'
             /\ env' = env
             /\ out' = Append(out, << "OK" >>)
             /\ status' = "active"]_vars
  /\ [][(/\ Processed
         /\ Action = << "SETERROR" >>
         /\ ~HasMesg
         /\ ReadsRequest
         /\ parse(cmd')[1] = << "SETDESC" >>)
          => \A e \in DescriptionExamples :
               parse(cmd')[2] = e[1] => rofi_args'["-mesg"] = Some(e[2])]_vars

\* SETERROR X as the second request of a session without SETDESC
C23_Witness ==
  /\ nread = 2
  /\ cmd = << "SETERROR", " ", "X" >>
  /\ ~HasMesg
  /\ Reply = << << "OK" >> >>
  /\ status = "active"

(***************************************************************************)
(* C24.  An OPTION argument is split at its first "=" only: a recognized   *)
(* name gets as value all that follows the first "=", further "="          *)
(* included, and the empty string when the argument has no "=".  After     *)
(* OPTION ttyname the TTY name is set and empty, and, when the display is  *)
(* set, a later GETINFO ttyinfo does not fail: it replies with a D line    *)
(* whose first field is empty, and OK.                                     *)
(***************************************************************************)
\* the places of "=" in an argument
EqualsAt(arg) == { i \in 1..Len(arg) : arg[i] = "=" }

FirstEquals(arg) == CHOOSE i \in EqualsAt(arg) : \A j \in EqualsAt(arg) : i <= j

NameOf(arg) == IF EqualsAt(arg) = { } THEN arg ELSE SubSeq(arg, 1, FirstEquals(arg) - 1)

ValueOf(arg) ==
  IF EqualsAt(arg) = { } THEN << >> ELSE SubSeq(arg, FirstEquals(arg) + 1, Len(arg))

VariableOf(name) ==
  IF name = << "ttyname" >> THEN "GPG_TTY"
  ELSE IF name = << "ttytype" >> THEN "GPG_TERM"
  ELSE IF name = << "lc-ctype" >> THEN "LC_CTYPE"
  ELSE "LC_MESSAGES"

\* a recognized option sets its variable to the value after the first "="
OptionSplitsAtFirstEquals ==
  (parse(cmd')[1] = << "OPTION" >> /\ NameOf(parse(cmd')[2]) \in KnownOptionNames)
    => env' = [env EXCEPT ![VariableOf(NameOf(parse(cmd')[2]))] = << ValueOf(parse(cmd')[2]) >>]

\* the reply to ttyinfo when the TTY name is empty: the first field is empty
EmptyTtyReply ==
  /\ status' = "active"
  /\ Len(out') = Len(out) + 2
  /\ out'[Len(out) + 1] =
       << "D", " ", " " >> \o (IF env["GPG_TERM"] = << >> THEN << >> ELSE env["GPG_TERM"][1])
         \o << " " >> \o (IF env["DISPLAY"] = << >> THEN << >> ELSE env["DISPLAY"][1])
  /\ out'[Len(out) + 2] = << "OK" >>

C24_EmptyTtynameWithDisplay ==
  [][ReadsRequest
       => /\ OptionSplitsAtFirstEquals
          /\ (/\ cmd' = << "GETINFO", " ", "ttyinfo" >>
              /\ env["GPG_TTY"] = << << >> >>
              /\ env["DISPLAY"] # << >>)
               => EmptyTtyReply]_vars

\* OPTION ttyname, OPTION ttytype=xterm=1, GETINFO ttyinfo with the display :1
C24_Witness ==
  /\ nread = 3
  /\ cmd = << "GETINFO", " ", "ttyinfo" >>
  /\ env["GPG_TTY"] = << << >> >>
  /\ Reply = << << "D", " ", " ", "xterm", "=", "1", " ", ":1" >>, << "OK" >> >>
  /\ status = "active"

\* the claim as written: after OPTION ttyname a later GETINFO ttyinfo does not
\* fail and replies with an empty first field, whatever else is set
C24_EmptyTtynameNeverFails ==
  [][ReadsRequest
       => /\ OptionSplitsAtFirstEquals
          /\ (cmd' = << "GETINFO", " ", "ttyinfo" >> /\ env["GPG_TTY"] = << << >> >>)
               => EmptyTtyReply]_vars

====
